---- MODULE Spec2Model ----
(***************************************************************************)
(* The local ML worker of substra                                          *)
(* (src/substra/sdk/backends/local/compute/worker.py): Worker's            *)
(* schedule_traintuple and schedule_testtuple as step machines over the    *)
(* tuples' mutable fields, the compute plan held by the data access layer, *)
(* the filesystem below the working directory and the container            *)
(* invocations made through the spawner.                                   *)
(***************************************************************************)
EXTENDS Integers, Sequences, FiniteSets, TLC

(***************************************************************************)
(* Bounds of the model.                                                    *)
(***************************************************************************)
\* the compute plan's tuple_count is drawn from 1..MaxTupleCount
MaxTupleCount == 2
\* a dataset (and an objective's test dataset) lists 0..MaxSamples sample keys
MaxSamples == 1
\* the directories _mkdir is tried on have MaxNames names to choose from
MaxNames == 3

(***************************************************************************)
(* Values.                                                                 *)
(***************************************************************************)
None == "None"

\* models.Status
Waiting == "waiting"
Doing == "doing"
Done == "done"
Failed == "failed"

\* schemas.Type of the four tuple variants
Traintuple == "traintuple"
CompositeTraintuple == "composite_traintuple"
Aggregatetuple == "aggregatetuple"
Testtuple == "testtuple"
TrainTypes == {Traintuple, CompositeTraintuple, Aggregatetuple}

\* The tuples held by the caller, one of each variant; a tuple's key names it.
TupleKeys == {"train_key", "composite_key", "aggregate_key", "test_key"}

TypeOf(key) ==
    CASE key = "train_key" -> Traintuple
      [] key = "composite_key" -> CompositeTraintuple
      [] key = "aggregate_key" -> Aggregatetuple
      [] OTHER -> Testtuple

KeyOfType(type) == CHOOSE key \in TupleKeys : TypeOf(key) = type

\* The one compute plan of the data access layer.
PlanId == "plan_id"

\* A dataset key is kept as the sequence of its parts, so that its prefix can
\* be looked at.
DatasetKeys == {<<"local_", "dataset_a">>, <<"dataset_b">>}

\* The models a tuple may name as its input models (outputs of tuples run
\* earlier), and those of them whose file is on disk.
ModelKeys == {"m1", "m2"}
StoredModelKeys == {"m1"}

\* The threads that may call the worker.
Procs == {"w1", "w2"}

\* runner constants imported by the worker
METRICS_FAKE_Y == "METRICS_FAKE_Y"
METRICS_NO_FAKE_Y == "METRICS_NO_FAKE_Y"
DOCKER_METRICS_TAG == "DOCKER_METRICS_TAG"

\* the mount points
_CONTAINER_MODEL_PATH == <<"sandbox", "model">>
_VOLUME_INPUT_DATASAMPLES == [bind |-> <<"sandbox", "data">>, mode |-> "ro"]
_VOLUME_MODELS_RO == [bind |-> _CONTAINER_MODEL_PATH, mode |-> "ro"]
_VOLUME_MODELS_RW == [bind |-> _CONTAINER_MODEL_PATH, mode |-> "rw"]
_VOLUME_OPENER == [bind |-> <<"sandbox", "opener", "__init__.py">>, mode |-> "ro"]
_VOLUME_OUTPUT_PRED == [bind |-> <<"sandbox", "pred">>, mode |-> "rw"]
_VOLUME_LOCAL == [bind |-> <<"sandbox", "local">>, mode |-> "rw"]
_VOLUME_INPUT_MODELS_RO == [bind |-> <<"sandbox", "input_models">>, mode |-> "ro"]
\* the output models mounted where the input models are
_VOLUME_OUTPUT_MODELS_AT_INPUT == [bind |-> <<"sandbox", "input_models">>, mode |-> "rw"]
_VOLUME_OUTPUT_MODELS_RW == [bind |-> <<"sandbox", "output_models">>, mode |-> "rw"]

(***************************************************************************)
(* Paths and the filesystem: a path is the sequence of its components, the *)
(* filesystem the set of the paths that exist.                             *)
(***************************************************************************)
\* os.path.join(path, name)
Join(path, name) == Append(path, name)

IsPrefix(p, q) == Len(p) <= Len(q) /\ SubSeq(q, 1, Len(p)) = p

\* os.makedirs(path): the directory and its missing parents
makedirs(files, path) == files \cup {SubSeq(path, 1, i) : i \in 1..Len(path)}

\* shutil.rmtree(path): the directory and everything below it
rmtree(files, path) == {q \in files : ~IsPrefix(path, q)}

\* a _mkdir that empties the directory whatever delete_if_exists
_mkdirDeleting(files, path, delete_if_exists) == makedirs(rmtree(files, path), path)

_mkdir(files, path, delete_if_exists) ==
    IF path \in files
    THEN IF ~delete_if_exists THEN files ELSE makedirs(rmtree(files, path), path)
    ELSE makedirs(files, path)

\* A filesystem operation that may raise: ok is FALSE once one has raised,
\* and nothing after that changes the files.
Ok(files) == [ok |-> TRUE, files |-> files]

\* os.link(src, dst): raises when src is missing or dst exists
os_link(r, src, dst) ==
    IF r.ok /\ src \in r.files /\ dst \notin r.files
    THEN [ok |-> TRUE, files |-> r.files \cup {dst}]
    ELSE [ok |-> FALSE, files |-> r.files]

\* shutil.copy(src, dst): raises when src is missing, overwrites dst
shutil_copy(r, src, dst) ==
    IF r.ok /\ src \in r.files
    THEN [ok |-> TRUE, files |-> r.files \cup {dst}]
    ELSE [ok |-> FALSE, files |-> r.files]

\* shutil.copytree(src, dst): raises when src is missing or dst exists
shutil_copytree(r, src, dst) ==
    IF r.ok /\ src \in r.files /\ dst \notin r.files
    THEN [ok |-> TRUE,
          files |-> r.files \cup
              {dst \o SubSeq(q, Len(src) + 1, Len(q)) :
                  q \in {x \in r.files : IsPrefix(src, x)}}]
    ELSE [ok |-> FALSE, files |-> r.files]

\* Worker._wdir
_wdir == <<"local-worker">>

\* str.startswith("local_")
_is_local(key) == Len(key) > 0 /\ key[1] = "local_"

\* dict: volumes[host] = volume
Put(volumes, host, volume) ==
    [h \in DOMAIN volumes \cup {host} |-> IF h = host THEN volume ELSE volumes[h]]

EmptyDict == [h \in {} |-> None]

(***************************************************************************)
(* The assets of the data access layer.                                    *)
(***************************************************************************)
\* the last part of a key, a path component
Name(key) == key[Len(key)]

\* dataset.opener.storage_address
OpenerAddress(dataset_key) == <<"assets", "datasets", Name(dataset_key), "opener.py">>

\* tuple_.dataset.keys: the keys of n data samples
SampleNames == <<"s1", "s2", "s3">>
SampleKeys(n) == [i \in 1..n |-> SampleNames[i]]

\* DataSample.path and DataSample.pkhash
SamplePath(sample_key) == <<"assets", "samples", sample_key>>
SamplePkhash(sample_key) == sample_key

\* InModel.storage_address of a model made before the run
InModelAddress(model_key) == <<"assets", "models", model_key>>

\* What is on disk before any call: the data samples and the earlier models.
AssetFiles ==
    UNION {makedirs({}, Join(SamplePath(SampleNames[i]), "data.csv")) :
              i \in 1..Len(SampleNames)}
    \cup UNION {makedirs({}, InModelAddress(m)) : m \in StoredModelKeys}

\* models.OutModel, a model named by its hash; NoModel is an output slot
\* holding None
NoModel == [set |-> FALSE, hash_ |-> None, storage_address |-> <<>>]
OutModel(hash, path) == [set |-> TRUE, hash_ |-> hash, storage_address |-> path]

\* fs.hash_file: the hashes the content of a model file may have
Hashes == {"h1", "h2"}

\* What a stored model file holds: what its producer wrote, or something a
\* later writer put there.
Original == "original"
Overwritten == "overwritten"

\* The model files: those of the models made before the run and those
\* _save_output_model writes.
OutputNames == {"model", "output_head_model", "output_trunk_model"}
ModelFiles ==
    {InModelAddress(m) : m \in StoredModelKeys}
    \cup {_wdir \o <<"models", key, name>> : key \in TupleKeys, name \in OutputNames}

\* str(path)
RECURSIVE PathStr(_)
PathStr(path) ==
    IF path = <<>> THEN "" ELSE "/" \o Head(path) \o PathStr(Tail(path))

(***************************************************************************)
(* The tuples handed to the worker. A field that a variant does not have   *)
(* holds its default.                                                      *)
(***************************************************************************)
PlanIds == {None, PlanId}
Ranks == {0, 1}
InModelLists == {<<>>} \cup {<<m>> : m \in ModelKeys} \cup {<<m, m>> : m \in StoredModelKeys}

BaseTuple(key) ==
    [key |-> key, compute_plan_id |-> None, rank |-> 0,
     dataset_key |-> <<>>, n_keys |-> 0,
     has_in_models |-> FALSE, in_models |-> <<>>,
     in_head_model |-> FALSE, in_trunk_model |-> FALSE,
     traintuple_type |-> None, n_objective_keys |-> 0]

\* models.Traintuple: in_models is None or a list
TraintupleInputs ==
    {[BaseTuple(KeyOfType(Traintuple)) EXCEPT
         !.compute_plan_id = p, !.rank = r, !.dataset_key = d, !.n_keys = n,
         !.has_in_models = m[1], !.in_models = m[2]] :
     p \in PlanIds, r \in Ranks, d \in DatasetKeys, n \in 0..MaxSamples,
     m \in {<<FALSE, <<>>>>} \cup {<<TRUE, l>> : l \in InModelLists}}

\* models.CompositeTraintuple: in_head_model and in_trunk_model are optional
CompositeTraintupleInputs ==
    {[BaseTuple(KeyOfType(CompositeTraintuple)) EXCEPT
         !.compute_plan_id = p, !.rank = r, !.dataset_key = d, !.n_keys = n,
         !.in_head_model = h, !.in_trunk_model = k] :
     p \in PlanIds, r \in Ranks, d \in DatasetKeys, n \in 0..MaxSamples,
     h \in BOOLEAN, k \in BOOLEAN}

\* models.Aggregatetuple: no dataset
AggregatetupleInputs ==
    {[BaseTuple(KeyOfType(Aggregatetuple)) EXCEPT
         !.compute_plan_id = p, !.rank = r,
         !.has_in_models = m[1], !.in_models = m[2]] :
     p \in PlanIds, r \in Ranks,
     m \in {<<FALSE, <<>>>>} \cup {<<TRUE, l>> : l \in InModelLists}}

\* models.Testtuple: the tuple it tests, and the size of its objective's test
\* dataset
TesttupleInputs ==
    {[BaseTuple(KeyOfType(Testtuple)) EXCEPT
         !.compute_plan_id = p, !.dataset_key = d, !.n_keys = n,
         !.traintuple_type = y, !.n_objective_keys = o] :
     p \in PlanIds, d \in DatasetKeys, n \in 0..MaxSamples,
     y \in TrainTypes, o \in 0..MaxSamples}

TrainInputs == TraintupleInputs \cup CompositeTraintupleInputs \cup AggregatetupleInputs

(***************************************************************************)
(* The state.                                                              *)
(***************************************************************************)
VARIABLES
    status,        \* tuple key -> tuple_.status
    out_model,     \* tuple key -> tuple_.out_model
    out_head_model,  \* tuple key -> tuple_.out_head_model.out_model
    out_trunk_model, \* tuple key -> tuple_.out_trunk_model.out_model
    log,           \* tuple key -> tuple_.log
    perf,          \* tuple key -> tuple_.dataset.perf
    compute_plan,  \* the compute plan: tuple_count, done_count, status
    files,         \* the paths that exist
    pc,            \* thread -> where its scheduling call stands
    frame,         \* thread -> the local variables of its call
    calls,         \* scheduling calls started so far
    completed,     \* calls for a tuple of the plan that returned normally
    content        \* stored model file -> what the file holds

\* The scheduling calls made in one behaviour: enough to pass the plan's
\* tuple_count by one.
MaxCalls == compute_plan.tuple_count + 1

vars == <<status, out_model, out_head_model, out_trunk_model, log, perf,
          compute_plan, files, pc, frame, calls, completed, content>>

tuple_vars == <<status, out_model, out_head_model, out_trunk_model, log, perf>>

\* The local variables of a call: the tuple it was given, whether its
\* compute_plan is set, the names bound so far, the volumes dict, the
\* container runs made, what the scoring run left as perf.json, the
\* done_count last read, and the exception that ended it.
NoFrame ==
    [tuple_ |-> BaseTuple("train_key"), compute_plan |-> FALSE,
     bound |-> {}, volumes |-> EmptyDict, runs |-> <<>>,
     perf_json |-> None, read |-> 0, error |-> None]

Init ==
    /\ status = [k \in TupleKeys |-> Waiting]
    /\ out_model = [k \in TupleKeys |-> NoModel]
    /\ out_head_model = [k \in TupleKeys |-> NoModel]
    /\ out_trunk_model = [k \in TupleKeys |-> NoModel]
    /\ log = [k \in TupleKeys |-> <<>>]
    /\ perf = [k \in TupleKeys |-> None]
    /\ \E n \in 1..MaxTupleCount :
          compute_plan = [tuple_count |-> n, done_count |-> 0, status |-> Waiting]
    /\ files = AssetFiles
    /\ pc = [c \in Procs |-> "idle"]
    /\ frame = [c \in Procs |-> NoFrame]
    /\ calls = 0
    /\ completed = 0
    /\ content = [a \in ModelFiles |-> Original]

(***************************************************************************)
(* The statements of the two scheduling functions, in the order the code   *)
(* runs them. A thread's pc names the statement it runs next; "exit" is    *)
(* the finally clause of _context.                                         *)
(***************************************************************************)
PlanSteps == {"plan_get", "plan_read", "plan_write", "plan_check"}

\* schedule_traintuple with the plan counted before the tuple is run
TrainStepsPlanFirst ==
    <<"fetch", "prepare", "plan_get", "plan_read", "plan_write", "plan_check",
      "spawn", "save", "set_done">>

\* schedule_traintuple
TrainSteps ==
    <<"fetch", "prepare", "spawn", "save", "set_done",
      "plan_get", "plan_read", "plan_write", "plan_check">>

\* schedule_testtuple running the predict stage again after it
TestStepsPredictAgain ==
    <<"fetch", "prepare", "predict", "predict", "score", "save_perf", "set_done",
      "plan_read", "plan_write", "plan_check">>

\* schedule_testtuple setting the status before it saves the performance
TestStepsDoneFirst ==
    <<"fetch", "prepare", "predict", "score", "set_done", "save_perf",
      "plan_read", "plan_write", "plan_check">>

\* schedule_testtuple, which keeps the plan it fetched at the start
TestSteps ==
    <<"fetch", "prepare", "predict", "score", "save_perf", "set_done",
      "plan_read", "plan_write", "plan_check">>

StepsOf(t) == IF TypeOf(t.key) = Testtuple THEN TestSteps ELSE TrainSteps

\* if tuple_.compute_plan_id: (schedule_traintuple) and if compute_plan:
\* (schedule_testtuple) guard the statements on the plan
Runs(t, step) == step \in PlanSteps => t.compute_plan_id # None

\* the statement after position i that the tuple's call runs
RECURSIVE StepFrom(_, _, _)
StepFrom(steps, t, i) ==
    IF i > Len(steps) THEN "exit"
    ELSE IF Runs(t, steps[i]) THEN steps[i]
    ELSE StepFrom(steps, t, i + 1)

Position(steps, step) == CHOOSE i \in 1..Len(steps) : steps[i] = step

After(t, step) == StepFrom(StepsOf(t), t, Position(StepsOf(t), step) + 1)

Active(c) == pc[c] \notin {"idle", "returned", "raised"}

\* the statement raises: the exception leaves the with block
Raise(c, error) ==
    /\ pc' = [pc EXCEPT ![c] = "exit"]
    /\ frame' = [frame EXCEPT ![c].error = error]

Goto(c, step) == pc' = [pc EXCEPT ![c] = step]

(***************************************************************************)
(* Worker._context                                                         *)
(***************************************************************************)
TupleDir(key) == Join(_wdir, key)

\* tmp_dir = _mkdir(os.path.join(self._wdir, key))
ContextEnter(fs, key) == _mkdir(fs, TupleDir(key), FALSE)

\* a _context that forgets to delete the directory
ContextExitKeeps(fs, key) == fs

\* finally: shutil.rmtree(tmp_dir, ignore_errors=True)
ContextExit(fs, key) == rmtree(fs, TupleDir(key))

\* with self._context(tuple_.key) as tuple_dir: tuple_.status = doing
Enter(c, t) ==
    /\ ~Active(c)
    /\ calls' = calls + 1
    /\ files' = ContextEnter(files, t.key)
    /\ status' = [status EXCEPT ![t.key] = Doing]
    /\ frame' = [frame EXCEPT ![c] = [NoFrame EXCEPT !.tuple_ = t]]
    /\ Goto(c, StepFrom(StepsOf(t), t, 1))
    /\ UNCHANGED <<out_model, out_head_model, out_trunk_model, log, perf,
                   compute_plan, completed, content>>

\* the with block is left, by its end or by an exception
Exit(c) ==
    /\ pc[c] = "exit"
    /\ files' = ContextExit(files, frame[c].tuple_.key)
    /\ pc' = [pc EXCEPT ![c] = IF frame[c].error = None THEN "returned" ELSE "raised"]
    /\ completed' = IF frame[c].error = None /\ frame[c].tuple_.compute_plan_id # None
                    THEN completed + 1 ELSE completed
    /\ UNCHANGED <<tuple_vars, compute_plan, frame, calls, content>>

(***************************************************************************)
(* schedule_traintuple                                                     *)
(***************************************************************************)
\* algo = self._db.download(...); compute_plan = self._db.get(...)
\* Either lookup may raise.
TrainFetch(c) ==
    /\ pc[c] = "fetch"
    /\ TypeOf(frame[c].tuple_.key) \in TrainTypes
    /\ \/ /\ frame' = [frame EXCEPT
                 ![c].compute_plan = (frame[c].tuple_.compute_plan_id # None)]
          /\ Goto(c, After(frame[c].tuple_, "fetch"))
       \/ Raise(c, "AssetError")
    /\ UNCHANGED <<tuple_vars, compute_plan, files, calls, completed, content>>

\* f"{idx}_{model.key}"
InModelName(idx, model_key) == ToString(idx) \o "_" \o model_key

\* for idx, model in enumerate(tuple_.in_models): os.link(...)
RECURSIVE LinkInModels(_, _, _, _)
LinkInModels(r, models_volume, in_models, i) ==
    IF i > Len(in_models) THEN r
    ELSE LinkInModels(
             os_link(r, InModelAddress(in_models[i]),
                     Join(models_volume, InModelName(i - 1, in_models[i]))),
             models_volume, in_models, i + 1)

\* for sample in samples: shutil.copytree(sample.path, data_volume/pkhash)
RECURSIVE CopySamples(_, _, _, _)
CopySamples(r, data_volume, keys, i) ==
    IF i > Len(keys) THEN r
    ELSE CopySamples(
             shutil_copytree(r, SamplePath(keys[i]),
                             Join(data_volume, SamplePkhash(keys[i]))),
             data_volume, keys, i + 1)

\* Worker._get_data_volume, the lookups of the samples done
_get_data_volume(r, tuple_dir, t) ==
    IF ~r.ok THEN r
    ELSE CopySamples(Ok(_mkdir(r.files, Join(tuple_dir, "data"), FALSE)),
                     Join(tuple_dir, "data"), SampleKeys(t.n_keys), 1)

\* the shared volume of the compute plan
PlanVolume(plan_id) == _wdir \o <<"compute_plans", "local", plan_id>>

\* data samples materialized whatever the dataset
TrainMountsDataAlways(t) == TypeOf(t.key) # Aggregatetuple

\* whether the call materializes the data samples of its tuple
TrainMountsData(t) ==
    TypeOf(t.key) # Aggregatetuple /\ _is_local(t.dataset_key)

\* schedule_traintuple, "Prepare input models": the volumes of the models
\* made and the input models linked in
TrainInputModelFiles(fs, t) ==
    LET dir == TupleDir(t.key)
    IN  IF TypeOf(t.key) = CompositeTraintuple
        THEN LET made == _mkdir(_mkdir(fs, Join(dir, "input_models"), FALSE),
                                Join(dir, "output_models"), FALSE)
                 head == IF t.in_head_model
                         THEN os_link(Ok(made), InModelAddress("m1"),
                                      dir \o <<"input_models", "input_head_model">>)
                         ELSE Ok(made)
             IN  IF t.in_trunk_model
                 THEN os_link(head, InModelAddress("m1"),
                              dir \o <<"input_models", "input_trunk_model">>)
                 ELSE head
        ELSE IF t.has_in_models
        THEN LinkInModels(Ok(_mkdir(fs, Join(dir, "models"), FALSE)),
                          Join(dir, "models"), t.in_models, 1)
        ELSE Ok(fs)

\* schedule_traintuple from there to the compute plan volume: what the
\* preparation does to the files
TrainPrepareFiles(fs, t) ==
    LET r1 == TrainInputModelFiles(fs, t)
        r2 == IF TrainMountsData(t) THEN _get_data_volume(r1, TupleDir(t.key), t) ELSE r1
    IN  IF r2.ok /\ t.compute_plan_id # None
        THEN Ok(_mkdir(r2.files, PlanVolume(t.compute_plan_id), FALSE))
        ELSE r2

\* the volumes dict it builds on the way
TrainVolumes(t) ==
    LET dir == TupleDir(t.key)
        v1 == IF TypeOf(t.key) = CompositeTraintuple
              THEN Put(Put(EmptyDict, Join(dir, "input_models"), _VOLUME_INPUT_MODELS_RO),
                       Join(dir, "output_models"), _VOLUME_OUTPUT_MODELS_RW)
              ELSE IF t.has_in_models
              THEN Put(EmptyDict, Join(dir, "models"), _VOLUME_MODELS_RW)
              ELSE EmptyDict
        v2 == IF TypeOf(t.key) # Aggregatetuple
              THEN Put(v1, OpenerAddress(t.dataset_key), _VOLUME_OPENER)
              ELSE v1
        v3 == IF TrainMountsData(t)
              THEN Put(v2, Join(dir, "data"), _VOLUME_INPUT_DATASAMPLES)
              ELSE v2
    IN  IF t.compute_plan_id # None
        THEN Put(v3, PlanVolume(t.compute_plan_id), _VOLUME_LOCAL)
        ELSE v3

\* the local variables the preparation binds
TrainBound(t) ==
    (IF TypeOf(t.key) = CompositeTraintuple
     THEN {"input_models_volume", "output_models_volume"}
     ELSE IF t.has_in_models THEN {"models_volume"} ELSE {})
    \cup (IF TrainMountsData(t) THEN {"data_volume"} ELSE {})

\* The preparation ends, or a link or a copy raises, or the download of the
\* dataset does, or the lookup of a data sample.
TrainPrepare(c) ==
    LET t == frame[c].tuple_
        r == TrainPrepareFiles(files, t)
        linked == TrainInputModelFiles(files, t)
    IN  /\ pc[c] = "prepare"
        /\ TypeOf(t.key) \in TrainTypes
        /\ \/ /\ r.ok
              /\ files' = r.files
              /\ frame' = [frame EXCEPT ![c].volumes = TrainVolumes(t),
                                        ![c].bound = TrainBound(t)]
              /\ Goto(c, After(t, "prepare"))
           \/ /\ ~r.ok
              /\ files' = r.files
              /\ Raise(c, "OSError")
           \/ /\ TypeOf(t.key) # Aggregatetuple
              /\ linked.ok
              /\ files' = linked.files
              /\ Raise(c, "AssetError")
           \/ /\ TrainMountsData(t)
              /\ t.n_keys > 0
              /\ linked.ok
              /\ files' = _mkdir(linked.files, Join(TupleDir(t.key), "data"), FALSE)
              /\ Raise(c, "AssetError")
        /\ UNCHANGED <<tuple_vars, compute_plan, calls, completed, content>>

\* _get_address_in_container: os.path.join(volume, model_key) with the
\* volume replaced by the mount point
_get_address_in_container(model_key, volume, container_volume) ==
    LET joined == Join(volume, model_key)
    IN  container_volume.bind \o SubSeq(joined, Len(volume) + 1, Len(joined))

\* the arguments of the composite models with the trunk model forgotten
CommandModelsHeadOnly(is_train, tuple_, models_volume, container_volume) ==
    IF is_train /\ tuple_.in_head_model
    THEN <<"--input-head-model-filename",
           PathStr(_get_address_in_container("input_head_model", models_volume,
                                             container_volume))>>
    ELSE <<>>

\* Worker._get_command_models_composite. tuple_ is the tuple being trained,
\* or (is_train false) the trained tuple a test tuple refers to, whose
\* models are named by their hashes.
_get_command_models_composite(is_train, tuple_, models_volume, container_volume) ==
    LET model_head_key ==
            IF ~is_train THEN tuple_.out_head_model.hash_
            ELSE IF tuple_.in_head_model THEN "input_head_model" ELSE None
        model_trunk_key ==
            IF ~is_train THEN tuple_.out_trunk_model.hash_
            ELSE IF tuple_.in_trunk_model THEN "input_trunk_model" ELSE None
    IN  (IF model_head_key # None
         THEN <<"--input-head-model-filename",
                PathStr(_get_address_in_container(model_head_key, models_volume,
                                                  container_volume))>>
         ELSE <<>>)
        \o (IF model_trunk_key # None
            THEN <<"--input-trunk-model-filename",
                   PathStr(_get_address_in_container(model_trunk_key, models_volume,
                                                     container_volume))>>
            ELSE <<>>)

\* whether the command asks the algo for fake data
TrainFakesData(t) ==
    TypeOf(t.key) # Aggregatetuple /\ ~_is_local(t.dataset_key)

\* schedule_traintuple, "compute command": the command as its words
TrainCommand(t) ==
    <<IF TypeOf(t.key) = Aggregatetuple THEN "aggregate" ELSE "train",
      "--rank", ToString(t.rank)>>
    \o (IF TrainFakesData(t)
        THEN <<"--fake-data", "--n-fake-samples", ToString(Len(SampleKeys(t.n_keys)))>>
        ELSE <<>>)
    \o (IF TypeOf(t.key) = CompositeTraintuple
        THEN _get_command_models_composite(
                 TRUE, t, Join(TupleDir(t.key), "input_models"),
                 _VOLUME_INPUT_MODELS_RO)
        ELSE IF t.has_in_models
        THEN [i \in 1..Len(t.in_models) |-> InModelName(i - 1, t.in_models[i])]
        ELSE <<>>)

\* the files a container run may leave in the volumes it can write: the
\* outputs the worker looks for afterwards
TrainOutputs(t) ==
    LET dir == TupleDir(t.key)
    IN  IF TypeOf(t.key) = CompositeTraintuple
        THEN {dir \o <<"output_models", "output_head_model">>,
              dir \o <<"output_models", "output_trunk_model">>}
        ELSE {dir \o <<"models", "model">>}

Writable(volumes, path) ==
    \E host \in DOMAIN volumes : volumes[host].mode = "rw" /\ IsPrefix(host, path)

\* The hard links schedule_traintuple makes, each with the file it links to.
TrainLinks(t) ==
    LET dir == TupleDir(t.key)
    IN  IF TypeOf(t.key) = CompositeTraintuple
        THEN (IF t.in_head_model
              THEN {<<dir \o <<"input_models", "input_head_model">>, InModelAddress("m1")>>}
              ELSE {})
             \cup (IF t.in_trunk_model
                   THEN {<<dir \o <<"input_models", "input_trunk_model">>,
                           InModelAddress("m1")>>}
                   ELSE {})
        ELSE IF t.has_in_models
        THEN {<<dir \o <<"models", InModelName(i - 1, t.in_models[i])>>,
                InModelAddress(t.in_models[i])>> : i \in 1..Len(t.in_models)}
        ELSE {}

\* The links a container can write through: those that exist below a volume
\* mounted rw. A hard link is another name of the file it links to.
WritableLinks(fs, volumes, links) ==
    {l \in links : l[1] \in fs /\ Writable(volumes, l[1])}

\* the model files after a container wrote through the links touched
WrittenThrough(touched) ==
    [a \in DOMAIN content |->
        IF \E l \in touched : l[2] = a THEN Overwritten ELSE content[a]]

\* logs = self._spawner.spawn(...): the run fails, or returns having written
\* some of its outputs; either way it may have written the files it can
\* write
TrainSpawn(c) ==
    LET t == frame[c].tuple_
        run == [image |-> "algo", command |-> TrainCommand(t),
                volumes |-> frame[c].volumes]
    IN  /\ pc[c] = "spawn"
        /\ \/ /\ \E written \in SUBSET {p \in TrainOutputs(t) :
                                           Writable(frame[c].volumes, p)} :
                    files' = files \cup written
              /\ frame' = [frame EXCEPT ![c].runs = Append(@, run)]
              /\ Goto(c, After(t, "spawn"))
           \/ /\ UNCHANGED files
              /\ frame' = [frame EXCEPT ![c].runs = Append(@, run),
                                        ![c].error = "ExecutionError"]
              /\ pc' = [pc EXCEPT ![c] = "exit"]
        /\ \E touched \in SUBSET WritableLinks(files, frame[c].volumes, TrainLinks(t)) :
              content' = WrittenThrough(touched)
        /\ UNCHANGED <<tuple_vars, compute_plan, calls, completed>>

\* the model saved below the working directory of the tuple
ModelPathInTupleDir(key, model_name) == TupleDir(key) \o <<"saved", model_name>>

\* model_path of Worker._save_output_model
ModelPath(key, model_name) == _wdir \o <<"models", key, model_name>>

\* Worker._save_output_model up to the copy: the model directory is made,
\* then the file copied out of the volume
_save_output_model(r, key, model_name, models_volume) ==
    IF ~r.ok THEN r
    ELSE shutil_copy(Ok(_mkdir(r.files, _wdir \o <<"models", key>>, FALSE)),
                     Join(models_volume, model_name),
                     ModelPath(key, model_name))

\* schedule_traintuple, "save move output models"
TrainSave(c) ==
    LET t == frame[c].tuple_
        dir == TupleDir(t.key)
        head == _save_output_model(Ok(files), t.key, "output_head_model",
                                   Join(dir, "output_models"))
        trunk == _save_output_model(head, t.key, "output_trunk_model",
                                    Join(dir, "output_models"))
        one == _save_output_model(Ok(files), t.key, "model", Join(dir, "models"))
        copied == IF TypeOf(t.key) = CompositeTraintuple
                  THEN (IF head.ok THEN {ModelPath(t.key, "output_head_model")} ELSE {})
                       \cup (IF trunk.ok THEN {ModelPath(t.key, "output_trunk_model")}
                             ELSE {})
                  ELSE IF "models_volume" \in frame[c].bound /\ one.ok
                  THEN {ModelPath(t.key, "model")}
                  ELSE {}
    IN  /\ pc[c] = "save"
        /\ content' = [a \in DOMAIN content |->
                          IF a \in copied THEN Original ELSE content[a]]
        /\ IF TypeOf(t.key) = CompositeTraintuple
           THEN /\ files' = trunk.files
                /\ IF head.ok
                   THEN \E h \in Hashes :
                           out_head_model' = [out_head_model EXCEPT ![t.key] =
                               OutModel(h, ModelPath(t.key, "output_head_model"))]
                   ELSE UNCHANGED out_head_model
                /\ IF trunk.ok
                   THEN \E h \in Hashes :
                           out_trunk_model' = [out_trunk_model EXCEPT ![t.key] =
                               OutModel(h, ModelPath(t.key, "output_trunk_model"))]
                   ELSE UNCHANGED out_trunk_model
                /\ IF trunk.ok THEN Goto(c, After(t, "save")) /\ UNCHANGED frame
                   ELSE Raise(c, "FileNotFoundError")
                /\ UNCHANGED out_model
           ELSE IF "models_volume" \notin frame[c].bound
           THEN /\ Raise(c, "UnboundLocalError")
                /\ UNCHANGED <<files, out_model, out_head_model, out_trunk_model>>
           ELSE /\ files' = one.files
                /\ IF one.ok
                   THEN /\ \E h \in Hashes :
                              out_model' = [out_model EXCEPT ![t.key] =
                                  OutModel(h, ModelPath(t.key, "model"))]
                        /\ Goto(c, After(t, "save"))
                        /\ UNCHANGED frame
                   ELSE /\ Raise(c, "FileNotFoundError")
                        /\ UNCHANGED out_model
                /\ UNCHANGED <<out_head_model, out_trunk_model>>
        /\ UNCHANGED <<status, log, perf, compute_plan, calls, completed>>

\* tuple_.log = logs; tuple_.status = models.Status.done
TrainSetDone(c) ==
    LET t == frame[c].tuple_
    IN  /\ pc[c] = "set_done"
        /\ TypeOf(t.key) \in TrainTypes
        /\ log' = [log EXCEPT ![t.key] = <<"logs">>]
        /\ status' = [status EXCEPT ![t.key] = Done]
        /\ Goto(c, After(t, "set_done"))
        /\ UNCHANGED <<out_model, out_head_model, out_trunk_model, perf,
                       compute_plan, files, frame, calls, completed, content>>

(***************************************************************************)
(* The update of the compute plan, at the end of both functions.           *)
(***************************************************************************)
\* schedule_traintuple looks the plan up again, which may raise
PlanGet(c) ==
    /\ pc[c] = "plan_get"
    /\ \/ Goto(c, After(frame[c].tuple_, "plan_get")) /\ UNCHANGED frame
       \/ Raise(c, "AssetError")
    /\ UNCHANGED <<tuple_vars, compute_plan, files, calls, completed, content>>

\* compute_plan.done_count += 1 reads the count ...
PlanRead(c) ==
    /\ pc[c] = "plan_read"
    /\ frame' = [frame EXCEPT ![c].read = compute_plan.done_count]
    /\ Goto(c, After(frame[c].tuple_, "plan_read"))
    /\ UNCHANGED <<tuple_vars, compute_plan, files, calls, completed, content>>

\* ... and writes it back, one more
PlanWrite(c) ==
    /\ pc[c] = "plan_write"
    /\ compute_plan' = [compute_plan EXCEPT !.done_count = frame[c].read + 1]
    /\ Goto(c, After(frame[c].tuple_, "plan_write"))
    /\ UNCHANGED <<tuple_vars, files, frame, calls, completed, content>>

\* the comparison made one too early
PlanCompleteOffByOne(plan) == plan.done_count + 1 = plan.tuple_count

\* compute_plan.done_count == compute_plan.tuple_count
PlanComplete(plan) == plan.done_count = plan.tuple_count

\* if ...: compute_plan.status = models.Status.done
PlanCheck(c) ==
    /\ pc[c] = "plan_check"
    /\ compute_plan' = IF PlanComplete(compute_plan)
                       THEN [compute_plan EXCEPT !.status = Done]
                       ELSE compute_plan
    /\ Goto(c, After(frame[c].tuple_, "plan_check"))
    /\ UNCHANGED <<tuple_vars, files, frame, calls, completed, content>>

(***************************************************************************)
(* schedule_testtuple                                                      *)
(***************************************************************************)
\* traintuple = self._db.get(...): the tuple of that type, with the models
\* it holds now
TraintupleOf(t) ==
    LET key == KeyOfType(t.traintuple_type)
    IN  [key |-> key,
         out_model |-> out_model[key],
         out_head_model |-> out_head_model[key],
         out_trunk_model |-> out_trunk_model[key]]

\* the lookups at the start, any of which may raise
TestFetch(c) ==
    /\ pc[c] = "fetch"
    /\ TypeOf(frame[c].tuple_.key) = Testtuple
    /\ \/ /\ frame' = [frame EXCEPT
                 ![c].compute_plan = (frame[c].tuple_.compute_plan_id # None)]
          /\ Goto(c, After(frame[c].tuple_, "fetch"))
       \/ Raise(c, "AssetError")
    /\ UNCHANGED <<tuple_vars, compute_plan, files, calls, completed, content>>

\* whether the trained tuple holds the models the test links in; reading a
\* field of a model that is None raises
HasTrainedModels(traintuple_type, traintuple) ==
    IF traintuple_type = CompositeTraintuple
    THEN traintuple.out_head_model.set /\ traintuple.out_trunk_model.set
    ELSE traintuple.out_model.set

\* the os.link calls of the predict stage
TestLinkModels(r, traintuple_type, traintuple, models_volume) ==
    IF traintuple_type = CompositeTraintuple
    THEN os_link(os_link(r, traintuple.out_head_model.storage_address,
                         Join(models_volume, traintuple.out_head_model.hash_)),
                 traintuple.out_trunk_model.storage_address,
                 Join(models_volume, traintuple.out_trunk_model.hash_))
    ELSE os_link(r, traintuple.out_model.storage_address,
                 Join(models_volume, traintuple.out_model.hash_))

\* schedule_testtuple, "prepare model and datasamples" to the links of the
\* trained models: what it does to the files
TestPrepareFiles(fs, t, traintuple) ==
    LET dir == TupleDir(t.key)
        r1 == Ok(_mkdir(_mkdir(fs, Join(dir, "pred"), FALSE),
                        Join(dir, "models"), FALSE))
        r2 == IF _is_local(t.dataset_key) THEN _get_data_volume(r1, dir, t) ELSE r1
        r3 == IF r2.ok /\ t.compute_plan_id # None
              THEN Ok(_mkdir(r2.files, PlanVolume(t.compute_plan_id), FALSE))
              ELSE r2
    IN  IF r3.ok /\ ~HasTrainedModels(t.traintuple_type, traintuple)
        THEN [ok |-> FALSE, files |-> r3.files]
        ELSE TestLinkModels(r3, t.traintuple_type, traintuple, Join(dir, "models"))

\* the volumes of the predict stage
TestVolumes(t) ==
    LET dir == TupleDir(t.key)
        v1 == Put(Put(Put(EmptyDict, OpenerAddress(t.dataset_key), _VOLUME_OPENER),
                      Join(dir, "models"), _VOLUME_MODELS_RO),
                  Join(dir, "pred"), _VOLUME_OUTPUT_PRED)
        v2 == IF _is_local(t.dataset_key)
              THEN Put(v1, Join(dir, "data"), _VOLUME_INPUT_DATASAMPLES)
              ELSE v1
    IN  IF t.compute_plan_id # None
        THEN Put(v2, PlanVolume(t.compute_plan_id), _VOLUME_LOCAL)
        ELSE v2

TestBound(t) ==
    {"predictions_volume", "models_volume"}
    \cup (IF _is_local(t.dataset_key) THEN {"data_volume"} ELSE {})

\* The preparation ends, or a link or a copy raises (so does reading a model
\* the trained tuple does not hold), or the lookup of a data sample.
TestPrepare(c) ==
    LET t == frame[c].tuple_
        r == TestPrepareFiles(files, t, TraintupleOf(t))
    IN  /\ pc[c] = "prepare"
        /\ TypeOf(t.key) = Testtuple
        /\ \/ /\ r.ok
              /\ files' = r.files
              /\ frame' = [frame EXCEPT ![c].volumes = TestVolumes(t),
                                        ![c].bound = TestBound(t)]
              /\ Goto(c, After(t, "prepare"))
           \/ /\ ~r.ok
              /\ files' = r.files
              /\ Raise(c, "OSError")
           \/ /\ _is_local(t.dataset_key)
              /\ t.n_keys > 0
              /\ files' = _mkdir(_mkdir(_mkdir(files, Join(TupleDir(t.key), "pred"), FALSE),
                                        Join(TupleDir(t.key), "models"), FALSE),
                                 Join(TupleDir(t.key), "data"), FALSE)
              /\ Raise(c, "AssetError")
        /\ UNCHANGED <<tuple_vars, compute_plan, calls, completed, content>>

\* schedule_testtuple, "compute testtuple command"
PredictCommand(t, traintuple) ==
    <<"predict">>
    \o (IF ~_is_local(t.dataset_key)
        THEN <<"--fake-data", "--n-fake-samples",
               ToString(Len(SampleKeys(t.n_objective_keys)))>>
        ELSE <<>>)
    \o (IF t.traintuple_type \in {Traintuple, Aggregatetuple}
        THEN <<PathStr(_get_address_in_container(
                   traintuple.out_model.hash_,
                   Join(TupleDir(t.key), "models"), _VOLUME_MODELS_RW))>>
        ELSE _get_command_models_composite(
                 FALSE, traintuple, Join(TupleDir(t.key), "models"),
                 _VOLUME_MODELS_RO))

\* The hard links schedule_testtuple makes, each with the file it links to.
TestLinks(t, traintuple) ==
    LET dir == TupleDir(t.key)
    IN  IF t.traintuple_type = CompositeTraintuple
        THEN {<<dir \o <<"models", traintuple.out_head_model.hash_>>,
                traintuple.out_head_model.storage_address>>,
              <<dir \o <<"models", traintuple.out_trunk_model.hash_>>,
                traintuple.out_trunk_model.storage_address>>}
        ELSE {<<dir \o <<"models", traintuple.out_model.hash_>>,
                traintuple.out_model.storage_address>>}

\* the predict stage's run of the algo
TestPredict(c) ==
    LET t == frame[c].tuple_
        run == [image |-> "algo", command |-> PredictCommand(t, TraintupleOf(t)),
                volumes |-> frame[c].volumes]
    IN  /\ pc[c] = "predict"
        /\ \/ /\ frame' = [frame EXCEPT ![c].runs = Append(@, run)]
              /\ Goto(c, After(t, "predict"))
           \/ /\ frame' = [frame EXCEPT ![c].runs = Append(@, run),
                                        ![c].error = "ExecutionError"]
              /\ pc' = [pc EXCEPT ![c] = "exit"]
        /\ \E touched \in SUBSET WritableLinks(files, frame[c].volumes,
                                                TestLinks(t, TraintupleOf(t))) :
              content' = WrittenThrough(touched)
        /\ UNCHANGED <<tuple_vars, compute_plan, files, calls, completed>>

\* schedule_testtuple, "Calculate the metrics": the volumes
ScoreVolumes(t) ==
    LET dir == TupleDir(t.key)
        v1 == Put(Put(EmptyDict, Join(dir, "pred"), _VOLUME_OUTPUT_PRED),
                  OpenerAddress(t.dataset_key), _VOLUME_OPENER)
    IN  IF _is_local(t.dataset_key)
        THEN Put(v1, Join(dir, "data"), _VOLUME_INPUT_DATASAMPLES)
        ELSE v1

\* the score command counting the tuple's samples, not the objective's
ScoreCommandTupleKeys(t) ==
    IF _is_local(t.dataset_key)
    THEN <<"--fake-data-mode", METRICS_NO_FAKE_Y>>
    ELSE <<"--fake-data-mode", METRICS_FAKE_Y,
           "--n-fake-samples", ToString(Len(SampleKeys(t.n_keys)))>>

\* and the command
ScoreCommand(t) ==
    IF _is_local(t.dataset_key)
    THEN <<"--fake-data-mode", METRICS_NO_FAKE_Y>>
    ELSE <<"--fake-data-mode", METRICS_FAKE_Y,
           "--n-fake-samples", ToString(Len(SampleKeys(t.n_objective_keys)))>>

\* what a scoring run can leave as perf.json: nothing, a JSON object with
\* the key "all", one without it, or text that is no JSON
PerfFiles == {None, "all", "no_all", "not_json"}

\* the score stage's run of the metrics
TestScore(c) ==
    LET t == frame[c].tuple_
        run == [image |-> DOCKER_METRICS_TAG, command |-> ScoreCommand(t),
                volumes |-> ScoreVolumes(t)]
    IN  /\ pc[c] = "score"
        /\ \/ /\ \E written \in PerfFiles :
                    /\ files' = IF written = None THEN files
                                ELSE files \cup {TupleDir(t.key) \o <<"pred", "perf.json">>}
                    /\ frame' = [frame EXCEPT ![c].runs = Append(@, run),
                                              ![c].volumes = run.volumes,
                                              ![c].perf_json = written]
              /\ Goto(c, After(t, "score"))
           \/ /\ UNCHANGED files
              /\ frame' = [frame EXCEPT ![c].runs = Append(@, run),
                                        ![c].volumes = run.volumes,
                                        ![c].error = "ExecutionError"]
              /\ pc' = [pc EXCEPT ![c] = "exit"]
        /\ UNCHANGED <<tuple_vars, compute_plan, calls, completed, content>>

\* schedule_testtuple, "save move performances": the copy, then
\* json.load(f).get('all')
TestSavePerf(c) ==
    LET t == frame[c].tuple_
        pred_dir == _wdir \o <<"performances", t.key>>
        r == shutil_copy(Ok(_mkdir(files, pred_dir, FALSE)),
                         TupleDir(t.key) \o <<"pred", "perf.json">>,
                         Join(pred_dir, "performance.json"))
    IN  /\ pc[c] = "save_perf"
        /\ files' = r.files
        /\ IF ~r.ok
           THEN Raise(c, "FileNotFoundError") /\ UNCHANGED perf
           ELSE IF frame[c].perf_json = "not_json"
           THEN Raise(c, "JSONDecodeError") /\ UNCHANGED perf
           ELSE /\ perf' = [perf EXCEPT ![t.key] =
                               IF frame[c].perf_json = "all" THEN "score" ELSE None]
                /\ Goto(c, After(t, "save_perf"))
                /\ UNCHANGED frame
        /\ UNCHANGED <<status, out_model, out_head_model, out_trunk_model, log,
                       compute_plan, calls, completed, content>>

\* tuple_.log = logs + "\n\n" + logs_predict; tuple_.status = done
TestSetDone(c) ==
    LET t == frame[c].tuple_
    IN  /\ pc[c] = "set_done"
        /\ TypeOf(t.key) = Testtuple
        /\ log' = [log EXCEPT ![t.key] = <<"logs", "\n\n", "logs_predict">>]
        /\ status' = [status EXCEPT ![t.key] = Done]
        /\ Goto(c, After(t, "set_done"))
        /\ UNCHANGED <<out_model, out_head_model, out_trunk_model, perf,
                       compute_plan, files, frame, calls, completed, content>>

(***************************************************************************)
(* The specifications.                                                     *)
(***************************************************************************)
schedule_traintuple(c, t) == t \in TrainInputs /\ Enter(c, t)

schedule_testtuple(c, t) == t \in TesttupleInputs /\ Enter(c, t)

Step(c) ==
    \/ TrainFetch(c) \/ TrainPrepare(c) \/ TrainSpawn(c) \/ TrainSave(c)
    \/ TrainSetDone(c)
    \/ TestFetch(c) \/ TestPrepare(c) \/ TestPredict(c) \/ TestScore(c)
    \/ TestSavePerf(c) \/ TestSetDone(c)
    \/ PlanGet(c) \/ PlanRead(c) \/ PlanWrite(c) \/ PlanCheck(c)
    \/ Exit(c)

AllInputs == TrainInputs \cup TesttupleInputs

\* The tuples of the runs of several calls: on the local dataset with all
\* its samples, of rank 0, a composite tuple without input models, a train
\* or aggregate tuple without in_models or with one stored model.
PlainInputs ==
    {t \in AllInputs :
        /\ t.dataset_key # <<>> => _is_local(t.dataset_key)
        /\ TypeOf(t.key) # Aggregatetuple => t.n_keys = MaxSamples
        /\ TypeOf(t.key) = Testtuple => t.n_objective_keys = MaxSamples
        /\ ~t.in_head_model /\ ~t.in_trunk_model
        /\ t.rank = 0
        /\ t.has_in_models =>
              (Len(t.in_models) = 1 /\ t.in_models[1] \in StoredModelKeys)}

\* One thread calls the worker, MaxCalls times: the calls run one after
\* another.
Next ==
    \/ \E t \in PlainInputs :
          calls < MaxCalls /\ (schedule_traintuple("w1", t) \/ schedule_testtuple("w1", t))
    \/ Step("w1")

Spec == Init /\ [][Next]_vars

\* One thread makes a first call and then a call for any tuple.
NextCall ==
    \/ \E t \in PlainInputs :
          calls = 0 /\ (schedule_traintuple("w1", t) \/ schedule_testtuple("w1", t))
    \/ \E t \in AllInputs :
          calls = 1 /\ (schedule_traintuple("w1", t) \/ schedule_testtuple("w1", t))
    \/ Step("w1")

SpecCall == Init /\ [][NextCall]_vars

\* Several threads call the worker at once, each once and for a tuple of the
\* compute plan that no running call holds.
Free(key) == \A c \in Procs : Active(c) => frame[c].tuple_.key # key

NextConcurrent ==
    \E c \in Procs :
        \/ \E t \in {x \in PlainInputs : x.compute_plan_id # None} :
              /\ pc[c] = "idle"
              /\ Free(t.key)
              /\ (schedule_traintuple(c, t) \/ schedule_testtuple(c, t))
        \/ Step(c)

SpecConcurrent == Init /\ [][NextConcurrent]_vars

\* _mkdir on its own: it is called with any path of MkdirPaths and either
\* value of delete_if_exists, on the files the calls before have left. pc
\* names the line of _mkdir that ended the call.
MkdirNames == {"d" \o ToString(i) : i \in 1..MaxNames}

MkdirPaths == {<<n>> : n \in MkdirNames} \cup {<<n, m>> : n, m \in MkdirNames}

InitMkdir ==
    /\ status = [k \in TupleKeys |-> Waiting]
    /\ out_model = [k \in TupleKeys |-> NoModel]
    /\ out_head_model = [k \in TupleKeys |-> NoModel]
    /\ out_trunk_model = [k \in TupleKeys |-> NoModel]
    /\ log = [k \in TupleKeys |-> <<>>]
    /\ perf = [k \in TupleKeys |-> None]
    /\ compute_plan = [tuple_count |-> 1, done_count |-> 0, status |-> Waiting]
    /\ files = {}
    /\ pc = [c \in Procs |-> "idle"]
    /\ frame = [c \in Procs |-> NoFrame]
    /\ calls = 0
    /\ completed = 0
    /\ content = [a \in ModelFiles |-> Original]

Mkdir(c) ==
    \E path \in MkdirPaths, delete_if_exists \in BOOLEAN :
        /\ files' = _mkdir(files, path, delete_if_exists)
        /\ pc' = [pc EXCEPT ![c] =
                     IF path \notin files THEN "makedirs"
                     ELSE IF delete_if_exists THEN "rmtree" ELSE "return path"]
        /\ UNCHANGED <<tuple_vars, compute_plan, frame, calls, completed, content>>

NextMkdir == Mkdir("w1")

SpecMkdir == InitMkdir /\ [][NextMkdir]_vars

(***************************************************************************)
(* The properties.                                                         *)
(***************************************************************************)
Ended(c) == pc[c] \in {"returned", "raised"}

KeyOf(c) == frame[c].tuple_.key

\* whether words occur in command, one after the other
Contains(command, words) ==
    \E i \in 0..(Len(command) - Len(words)) :
        SubSeq(command, i + 1, i + Len(words)) = words

\* C1: every scheduling call, however it ends, leaves the status of its
\* tuple Done or Failed; a call that raised leaves it Failed.
C1_StatusDoneOrFailedAfterCall ==
    \A c \in Procs :
        /\ Ended(c) => status[KeyOf(c)] \in {Done, Failed}
        /\ pc[c] = "raised" => status[KeyOf(c)] = Failed

\* C2: the working directory of a tuple exists while a call for the tuple
\* runs, and neither it nor anything below it exists once no call for the
\* tuple runs.
C2_ScratchDirOnlyDuringCall ==
    \A key \in TupleKeys :
        IF \E c \in Procs : Active(c) /\ KeyOf(c) = key
        THEN TupleDir(key) \in files
        ELSE \A p \in files : ~IsPrefix(TupleDir(key), p)

\* a call has raised after its container ran, and its directory is gone
C2_Witness ==
    /\ pc["w1"] = "raised"
    /\ frame["w1"].error = "FileNotFoundError"
    /\ frame["w1"].runs # <<>>
    /\ TupleDir(KeyOf("w1")) \notin files

\* C3: between calls, when as many calls for tuples of the plan have
\* returned as the plan's tuple_count, done_count is tuple_count and the
\* plan is Done; when fewer have, the plan is not Done.
C3_PlanDoneAfterTupleCountCalls ==
    (\A c \in Procs : ~Active(c)) =>
        /\ completed = compute_plan.tuple_count =>
              /\ compute_plan.done_count = compute_plan.tuple_count
              /\ compute_plan.status = Done
        /\ completed < compute_plan.tuple_count => compute_plan.status # Done

\* a train and a test tuple of a plan of two tuples have both returned
C3_Witness ==
    /\ ~Active("w1")
    /\ compute_plan.tuple_count = MaxTupleCount
    /\ completed = MaxTupleCount
    /\ status["test_key"] = Done
    /\ compute_plan.status = Done

\* C4: done_count never exceeds tuple_count, never decreases, and the plan
\* is not set to Done twice.
C4_DoneCountAtMostTupleCount ==
    compute_plan.done_count <= compute_plan.tuple_count

\* C5: when the calls of all threads, run at once for the tuples of a plan
\* of that many tuples, have returned, every one of them is counted in
\* done_count and the plan is Done.
C5_NoLostIncrement ==
    (/\ \A c \in Procs : pc[c] = "returned"
     /\ compute_plan.tuple_count = Cardinality(Procs))
    => /\ compute_plan.done_count = Cardinality(Procs)
       /\ compute_plan.status = Done

\* C6: the plan (done_count, status) changes only in a step of a call
\* whose tuple is Done; a call whose tuple did not reach Done leaves it as
\* it was.
C6_PlanCountsOnlyDoneTuples ==
    [][compute_plan' # compute_plan =>
          /\ Active("w1")
          /\ status[KeyOf("w1")] = Done]_vars

\* after a counted call, a call of a plan tuple has raised before Done and
\* the plan still counts one
C6_Witness ==
    /\ pc["w1"] = "raised"
    /\ frame["w1"].tuple_.compute_plan_id # None
    /\ frame["w1"].runs # <<>>
    /\ status[KeyOf("w1")] = Doing
    /\ compute_plan.done_count = 1

\* C7: a status that is Done or Failed never changes again, and no status
\* goes back to Waiting.
C7_TerminalStatusStays ==
    [][\A key \in TupleKeys :
          /\ status[key] \in {Done, Failed} => status'[key] = status[key]
          /\ status[key] # Waiting => status'[key] # Waiting]_vars

\* C8: a schedule_traintuple call whose container run returned and left its
\* outputs (no run error, no output file missing) ends with the tuple Done
\* and its output models set: two for a composite tuple, one otherwise.
C8_OutputsPersistedAfterRun ==
    \A c \in Procs :
        (/\ Ended(c)
         /\ TypeOf(KeyOf(c)) \in TrainTypes
         /\ frame[c].runs # <<>>
         /\ frame[c].error \notin {"ExecutionError", "FileNotFoundError"})
        => /\ status[KeyOf(c)] = Done
           /\ IF TypeOf(KeyOf(c)) = CompositeTraintuple
              THEN out_head_model[KeyOf(c)].set /\ out_trunk_model[KeyOf(c)].set
              ELSE out_model[KeyOf(c)].set

\* the dataset of the tuple has a key that starts with the local marker
OnLocalDataset(t) == t.dataset_key # <<>> /\ Head(t.dataset_key) = "local_"

DataDir(key) == TupleDir(key) \o <<"data">>

\* the hosts a run mounts as its data samples
DataHosts(run) ==
    {host \in DOMAIN run.volumes : run.volumes[host] = _VOLUME_INPUT_DATASAMPLES}

\* the number of samples the command of the algo run is to fake
FakeCount(t) ==
    IF TypeOf(t.key) = Testtuple THEN t.n_objective_keys ELSE t.n_keys

\* C9: the run of the algo (train or predict) mounts a data sample volume,
\* with every sample of the tuple copied into it, exactly when the tuple has
\* a local dataset, and its command carries --fake-data --n-fake-samples n
\* exactly when the tuple has a dataset that is not local; never both, and
\* nothing is ever put in the data directory of a call on a remote dataset
\* or of an aggregate tuple.
C9_RealDataIffLocal ==
    \A c \in Procs :
        LET t == frame[c].tuple_
            real == TypeOf(t.key) # Aggregatetuple /\ OnLocalDataset(t)
            fake == TypeOf(t.key) # Aggregatetuple /\ ~OnLocalDataset(t)
        IN  /\ (Active(c) /\ ~real) =>
                  \A p \in files : ~IsPrefix(DataDir(t.key), p)
            /\ frame[c].runs # <<>> =>
                  LET run == frame[c].runs[1]
                  IN  /\ DataHosts(run) = IF real THEN {DataDir(t.key)} ELSE {}
                      /\ (Active(c) /\ real) =>
                            \A i \in 1..t.n_keys :
                                Join(DataDir(t.key), SampleNames[i]) \in files
                      /\ Contains(run.command, <<"--fake-data">>) <=> fake
                      /\ Contains(run.command, <<"--n-fake-samples">>) <=> fake
                      /\ fake => Contains(run.command,
                                          <<"--fake-data", "--n-fake-samples",
                                            ToString(FakeCount(t))>>)

\* the predict stage of a test on a remote dataset has run with fake data
C9_Witness ==
    /\ pc["w1"] = "score"
    /\ ~OnLocalDataset(frame["w1"].tuple_)
    /\ frame["w1"].tuple_.n_keys = MaxSamples
    /\ Contains(frame["w1"].runs[1].command, <<"--fake-data">>)
    /\ \A p \in files : ~IsPrefix(DataDir("test_key"), p)

\* C10: for a test tuple whose two stages have run, on a dataset that is
\* not local and an objective of k test samples the predict command holds
\* --fake-data --n-fake-samples k and the score command is --fake-data-mode
\* with the fake mode and --n-fake-samples k; on a local dataset the score
\* command is --fake-data-mode with the no-fake mode alone and the score
\* stage mounts the data sample volume of the predict stage.
C10_TestCommands ==
    \A c \in Procs :
        (TypeOf(KeyOf(c)) = Testtuple /\ Len(frame[c].runs) = 2) =>
            LET t == frame[c].tuple_
                predict == frame[c].runs[1]
                score == frame[c].runs[2]
                k == ToString(t.n_objective_keys)
            IN  IF OnLocalDataset(t)
                THEN /\ score.command = <<"--fake-data-mode", METRICS_NO_FAKE_Y>>
                     /\ DataHosts(predict) # {}
                     /\ DataHosts(score) = DataHosts(predict)
                ELSE /\ Contains(predict.command,
                                 <<"--fake-data", "--n-fake-samples", k>>)
                     /\ score.command =
                            <<"--fake-data-mode", METRICS_FAKE_Y, "--n-fake-samples", k>>

\* both stages of a test on a remote dataset have run, the objective listing
\* more samples than the tuple
C10_Witness ==
    /\ TypeOf(KeyOf("w1")) = Testtuple
    /\ Len(frame["w1"].runs) = 2
    /\ ~OnLocalDataset(frame["w1"].tuple_)
    /\ frame["w1"].tuple_.n_objective_keys = MaxSamples
    /\ frame["w1"].tuple_.n_keys < MaxSamples

\* the container runs made so far by the call of a thread
RunsOf(c) == {frame[c].runs[i] : i \in 1..Len(frame[c].runs)}

\* C11: in every container run of a call (train, predict, score) each host
\* path of the volumes has one entry, a container path and a mode, and no two
\* host paths are mounted at the same container path.
C11_VolumesOneToOne ==
    \A c \in Procs : \A run \in RunsOf(c) :
        /\ \A host \in DOMAIN run.volumes :
              /\ DOMAIN run.volumes[host] = {"bind", "mode"}
              /\ run.volumes[host].mode \in {"ro", "rw"}
        /\ \A h1, h2 \in DOMAIN run.volumes :
              run.volumes[h1].bind = run.volumes[h2].bind => h1 = h2

\* a composite tuple of the plan on a remote dataset has run, with its four
\* volumes
C11_Witness ==
    /\ TypeOf(KeyOf("w1")) = CompositeTraintuple
    /\ frame["w1"].tuple_.compute_plan_id # None
    /\ ~OnLocalDataset(frame["w1"].tuple_)
    /\ Len(frame["w1"].runs) = 1
    /\ Cardinality(DOMAIN frame["w1"].runs[1].volumes) = 4

\* the directories of the durable outputs
PersistentDirs ==
    {_wdir \o <<"models">>, _wdir \o <<"performances">>,
     _wdir \o <<"compute_plans", "local">>}

Persistent(path) == \E dir \in PersistentDirs : IsPrefix(dir, path)

\* the output models the tuples hold
SetOutModels(om, ohm, otm) ==
    {m \in {om[key] : key \in TupleKeys} \cup {ohm[key] : key \in TupleKeys}
           \cup {otm[key] : key \in TupleKeys} : m.set}

\* C12: no step of a call, the removal of the working directory included,
\* removes a path below the directories of the models, the performances and
\* the compute plans, and the storage address of every output model a tuple
\* holds names a file that exists.
C12_PersistentOutputsSurvive ==
    [][/\ \A p \in files : Persistent(p) => p \in files'
       /\ \A m \in SetOutModels(out_model', out_head_model', out_trunk_model') :
             m.storage_address \in files']_vars

\* a test of the plan has returned after a train call: its directory is
\* gone, the model, the performance and the plan's directory are there
C12_Witness ==
    /\ pc["w1"] = "returned"
    /\ KeyOf("w1") = "test_key"
    /\ frame["w1"].tuple_.compute_plan_id # None
    /\ \A p \in files : ~IsPrefix(TupleDir("test_key"), p)
    /\ out_model["train_key"].set
    /\ out_model["train_key"].storage_address \in files
    /\ _wdir \o <<"performances", "test_key", "performance.json">> \in files
    /\ PlanVolume(PlanId) \in files

\* C13: whatever the container of a call writes in the volumes it can
\* write, no stored model file is overwritten: every model file holds what
\* its producer wrote.
C13_ConsumedModelUnchanged ==
    \A a \in DOMAIN content : content[a] = Original

\* C14: a schedule_testtuple call whose two runs returned and whose score
\* run left no perf.json, one that is no JSON, or one without the key "all",
\* ends with an error and its tuple not Done.
C14_MalformedPerfRaises ==
    \A c \in Procs :
        (/\ Ended(c)
         /\ TypeOf(KeyOf(c)) = Testtuple
         /\ Len(frame[c].runs) = 2
         /\ frame[c].error # "ExecutionError"
         /\ frame[c].perf_json # "all")
        => /\ pc[c] = "raised"
           /\ status[KeyOf(c)] # Done

\* C15: a schedule_traintuple call runs at most one container, a
\* schedule_testtuple call at most the algo once and then the metrics once,
\* and a call in which a step has raised runs no container any more.
C15_NoRetry ==
    [][\A c \in Procs :
          LET runs == frame'[c].runs
          IN  /\ IF TypeOf(frame'[c].tuple_.key) = Testtuple
                 THEN /\ Len(runs) <= 2
                      /\ Len(runs) >= 1 => runs[1].image = "algo"
                      /\ Len(runs) = 2 => runs[2].image = DOCKER_METRICS_TAG
                 ELSE Len(runs) <= 1
              /\ (calls' = calls /\ frame[c].error # None) => runs = frame[c].runs]_vars

\* the predict run of a test has failed and the call has ended with that one
\* run
C15_Witness ==
    /\ pc["w1"] = "raised"
    /\ TypeOf(KeyOf("w1")) = Testtuple
    /\ frame["w1"].error = "ExecutionError"
    /\ Len(frame["w1"].runs) = 1

\* C16: the command of a schedule_traintuple run starts with aggregate for
\* an aggregate tuple and with train otherwise, then --rank and the rank;
\* for a composite tuple it holds --input-head-model-filename exactly when
\* the tuple has an input head model and --input-trunk-model-filename
\* exactly when it has an input trunk model, each followed by the path of
\* the model in the container, and with neither model it is the verb, the
\* rank and, on a remote dataset only, the fake data flags.
C16_TrainCommand ==
    \A c \in Procs :
        (TypeOf(KeyOf(c)) \in TrainTypes /\ frame[c].runs # <<>>) =>
            LET t == frame[c].tuple_
                command == frame[c].runs[1].command
                head == <<"--input-head-model-filename">>
                trunk == <<"--input-trunk-model-filename">>
                start == <<IF TypeOf(t.key) = Aggregatetuple THEN "aggregate" ELSE "train",
                           "--rank", ToString(t.rank)>>
                fake == IF TypeOf(t.key) # Aggregatetuple /\ ~OnLocalDataset(t)
                        THEN <<"--fake-data", "--n-fake-samples", ToString(t.n_keys)>>
                        ELSE <<>>
            IN  /\ SubSeq(command, 1, 3) = start
                /\ Contains(command, head) <=>
                      (TypeOf(t.key) = CompositeTraintuple /\ t.in_head_model)
                /\ Contains(command, trunk) <=>
                      (TypeOf(t.key) = CompositeTraintuple /\ t.in_trunk_model)
                /\ Contains(command, head) =>
                      Contains(command, head \o <<"/sandbox/input_models/input_head_model">>)
                /\ Contains(command, trunk) =>
                      Contains(command, trunk \o <<"/sandbox/input_models/input_trunk_model">>)
                /\ (TypeOf(t.key) = CompositeTraintuple
                    /\ ~t.in_head_model /\ ~t.in_trunk_model) =>
                      command = start \o fake

\* a composite tuple of rank 1 with an input trunk model and no input head
\* model has run
C16_Witness ==
    /\ TypeOf(KeyOf("w1")) = CompositeTraintuple
    /\ frame["w1"].tuple_.rank = 1
    /\ frame["w1"].tuple_.in_trunk_model
    /\ ~frame["w1"].tuple_.in_head_model
    /\ Len(frame["w1"].runs) = 1

\* C17: _mkdir without delete_if_exists leaves an existing path and all
\* below it as they are, only adds the path and its missing parents
\* otherwise, and gives the same files when called again; with
\* delete_if_exists it leaves the path with nothing below it and
\* everything elsewhere as it is. A call that found the path and was not
\* told to delete it changes no file, and one that made the path removes
\* none.
C17_MkdirIdempotent ==
    /\ [](\A p \in MkdirPaths :
            LET once == _mkdir(files, p, FALSE)
                reset == _mkdir(files, p, TRUE)
            IN  /\ p \in files => once = files
                /\ files \subseteq once
                /\ p \in once
                /\ \A q \in once \ files : IsPrefix(q, p)
                /\ _mkdir(once, p, FALSE) = once
                /\ p \in reset
                /\ \A q \in reset : IsPrefix(p, q) => q = p
                /\ \A q \in files : ~IsPrefix(p, q) => q \in reset)
    /\ [][/\ pc'["w1"] = "return path" => files' = files
          /\ pc'["w1"] = "makedirs" => (files \subseteq files' /\ files' # files)]_vars

\* _mkdir has been called without delete_if_exists on a path that exists,
\* with a directory that is not empty among the files
C17_Witness ==
    /\ pc["w1"] = "return path"
    /\ \E p, q \in files : p # q /\ IsPrefix(p, q)

\* performance.json of a test tuple
PerfPath(key) == _wdir \o <<"performances", key, "performance.json">>

\* C18: in a step of a schedule_testtuple call, a container is run only
\* when nothing has raised, the algo first and the metrics second; the
\* performance file is persisted and dataset.perf set only after both runs
\* and before the status is Done; the status becomes Done only with both
\* runs made and the performance file persisted; the compute plan changes
\* only when the status is Done; and once a step has raised (a failed
\* predict run included) no run is made, no performance file persisted, and
\* perf and status stay as they are.
C18_TestStepsInOrder ==
    [][\A c \in Procs :
          LET key == KeyOf(c)
              runs == frame[c].runs
              persisted == (PerfPath(key) \notin files /\ PerfPath(key) \in files')
                           \/ perf'[key] # perf[key]
          IN  (TypeOf(key) = Testtuple /\ calls' = calls /\ Active(c)) =>
                  /\ frame'[c].runs # runs =>
                        /\ frame[c].error = None
                        /\ \/ runs = <<>> /\ frame'[c].runs[1].image = "algo"
                           \/ /\ Len(runs) = 1
                              /\ Len(frame'[c].runs) = 2
                              /\ frame'[c].runs[2].image = DOCKER_METRICS_TAG
                  /\ persisted => (Len(runs) = 2 /\ frame[c].error = None
                                   /\ status[key] = Doing)
                  /\ (status'[key] = Done /\ status[key] # Done) =>
                        (Len(runs) = 2 /\ PerfPath(key) \in files)
                  /\ compute_plan' # compute_plan => status[key] = Done
                  /\ frame[c].error # None =>
                        /\ frame'[c].runs = runs
                        /\ ~persisted
                        /\ status'[key] = status[key]]_vars

\* after a train call, the predict run of a test has failed: the call has
\* ended without a score run and without a performance file
C18_Witness ==
    /\ calls = 2
    /\ pc["w1"] = "raised"
    /\ TypeOf(KeyOf("w1")) = Testtuple
    /\ frame["w1"].error = "ExecutionError"
    /\ Len(frame["w1"].runs) = 1
    /\ PerfPath(KeyOf("w1")) \notin files
    /\ perf[KeyOf("w1")] = None

\* C19: a first call that has ended without its tuple Done has left the
\* output models and the log of the tuple as they were, unset and empty;
\* and between calls a composite tuple holds both its output models or
\* neither.
C19_OutputsOnlyWhenDone ==
    \A c \in Procs :
        /\ (Ended(c) /\ calls = 1 /\ status[KeyOf(c)] # Done) =>
              /\ ~out_model[KeyOf(c)].set
              /\ ~out_head_model[KeyOf(c)].set
              /\ ~out_trunk_model[KeyOf(c)].set
              /\ log[KeyOf(c)] = <<>>
        /\ Ended(c) =>
              (out_head_model[KeyOf(c)].set <=> out_trunk_model[KeyOf(c)].set)

\* C20: the names under which a call links models into its models volume
\* differ from one another, and no link fails on a name that is taken. For a
\* train or aggregate tuple that has run, the names of its input models
\* differ, are linked, and end the command in the order of the input
\* models; a test of a composite tuple that holds its two models, once past
\* its preparation, has linked them without an error.
C20_LinkNamesDistinct ==
    \A c \in Procs :
        LET t == frame[c].tuple_
            names == [i \in 1..Len(t.in_models) |-> InModelName(i - 1, t.in_models[i])]
            command == IF frame[c].runs = <<>> THEN <<>> ELSE frame[c].runs[1].command
        IN  /\ (TypeOf(t.key) \in {Traintuple, Aggregatetuple}
                /\ t.has_in_models /\ frame[c].runs # <<>>) =>
                  /\ \A i, j \in DOMAIN names : names[i] = names[j] => i = j
                  /\ Len(command) >= Len(names)
                  /\ SubSeq(command, Len(command) - Len(names) + 1, Len(command)) = names
                  /\ Active(c) =>
                        \A i \in DOMAIN names :
                            TupleDir(t.key) \o <<"models", names[i]>> \in files
            /\ (/\ TypeOf(t.key) = Testtuple
                /\ t.traintuple_type = CompositeTraintuple
                /\ out_head_model[KeyOfType(CompositeTraintuple)].set
                /\ out_trunk_model[KeyOfType(CompositeTraintuple)].set
                /\ pc[c] \notin {"idle", "fetch", "prepare"}) =>
                  frame[c].error # "OSError"

\* C21: when the first call, for a tuple of the compute plan, has ended,
\* returned or raised, the tuple is Done exactly if the call has counted it:
\* done_count, 0 before the call, is 1.
C21_DoneIffCounted ==
    \A c \in Procs :
        (/\ Ended(c)
         /\ calls = 1
         /\ frame[c].tuple_.compute_plan_id # None)
        => (status[KeyOf(c)] = Done <=> compute_plan.done_count = 1)
====
